---- MODULE Spec2Model ----
(***************************************************************************)
(* A model of the googlesheets Workbench module (googlesheets.py):         *)
(* fetch_arrow / do_download, render and migrate_params, together with the *)
(* host that calls them and the HTTP collaborator that answers the GET.    *)
(*                                                                         *)
(* Python values are modelled as follows.  A dict is a record (a function  *)
(* from keys to values), the empty dict is the empty function <<>>, a list *)
(* is a sequence, a str is a string, None is the record `None`.  A file on *)
(* disk is a record whose field `head` holds the file's leading bytes; a   *)
(* zero-length file has head = "".                                         *)
(***************************************************************************)
EXTENDS Integers, Sequences, FiniteSets, TLC

VARIABLES
    pc,            \* "idle", or "downloading" while fetch awaits httpfile.download
    params,        \* the params of the step (fetch_arrow's and render's `params`)
    secrets,       \* fetch_arrow's `secrets`
    output_path,   \* contents of the file at fetch_arrow's `output_path`
    fetch_before,  \* contents of that file when fetch_arrow was entered
    awaiting,      \* do_download's locals while it awaits the GET
    requests,      \* the GETs the current/last fetch invocation has issued
    download_end,  \* how httpfile.download ended and the file it left
    fetch_ret,     \* what the last fetch_arrow call returned or raised
    fetch_result,  \* the FetchResult the host has persisted (None if none)
    fetched_file,  \* the file reference the persisted result was fetched for
    render_params, \* render's `params`
    render_before, \* contents of render's `output_path` when it was entered
    render_output, \* contents of the file at render's `output_path`
    render_ret,    \* what the last render call returned or raised
    render_given,  \* the fetch result as it was when render was entered
    render_prev,   \* the render call before, if on the same fetch result
    default_errors, \* items of the list that is FetchResult.errors' default
    shares_default, \* the persisted result's `errors` is that default list
    m_params,      \* the params the host persisted before any migration
    m_ret,         \* migrate_params' return value (None before the call)
    m_prev         \* the migrated params the host persisted (None if none)

vars == << pc, params, secrets, output_path, fetch_before, awaiting, requests,
           download_end, fetch_ret, fetch_result, fetched_file, render_params, render_before,
           render_output, render_ret, render_given, render_prev,
           default_errors, shares_default, m_params, m_ret, m_prev >>

fetch_vars == << pc, params, secrets, output_path, fetch_before, awaiting,
                 requests, download_end, fetch_ret >>
render_vars == << render_params, render_before, render_output, render_ret,
                 render_given, render_prev >>
result_vars == << fetch_result, fetched_file, default_errors, shares_default >>
migrate_vars == << m_params, m_ret, m_prev >>

-----------------------------------------------------------------------------
(* Bounds of the model *)

NumFileIds == 1      \* distinct non-empty file ids the host may select
MaxStoredErrors == 2 \* longest error list of a persisted legacy fetch result

-----------------------------------------------------------------------------
(* Python helpers *)

None == [py |-> "None"]
NoSource == "None"                 \* None in the str-typed `source` field
EmptyDict == [k \in {} |-> ""]

\* Python truthiness of an Optional[dict]
Falsy(d) == d = None \/ DOMAIN d = {}

\* str.startswith
startswith(s, prefix) ==
    Len(s) >= Len(prefix) /\ SubSeq(s, 1, Len(prefix)) = prefix

-----------------------------------------------------------------------------
(* Files *)

EmptyFile == [head |-> ""]
StaleFile == [head |-> "junk"]          \* bytes left by somebody else
PartialFile == [head |-> "par"]         \* a download cut short
os_truncate(file, length) == IF length = 0 THEN EmptyFile ELSE file

-----------------------------------------------------------------------------
(* Messages, errors and results *)

I18nMessage(id, arguments, source) ==
    [id |-> id, arguments |-> arguments, source |-> source]

\* I18nMessage(**d): the NamedTuple's defaults fill the keys d lacks
I18nMessageFromDict(d) ==
    I18nMessage(d.id,
                IF "arguments" \in DOMAIN d THEN d.arguments ELSE EmptyDict,
                IF "source" \in DOMAIN d THEN d.source ELSE NoSource)

\* cjwmodule.i18n.trans: a message of this module, without arguments
trans(id) == I18nMessage(id, EmptyDict, "module")

RenderError(message) == [message |-> message, quick_fixes |-> <<>>]

FetchResult(path, errors) == [path |-> path, errors |-> errors]

\* What a call ends with
Returned(value) == [kind |-> "return", value |-> value]
Raised(exc) == [kind |-> "raise", exc |-> exc]
NotCalled == [kind |-> "none"]

-----------------------------------------------------------------------------
(* The inputs the host draws from *)

GDRIVE_API_URL == "https://www.googleapis.com/drive/v3"

SPREADSHEET == "application/vnd.google-apps.spreadsheet"

\* cjwparse.api.MimeType, in the enum's order
MimeType == << "text/csv",
               "text/tab-separated-values",
               "text/plain",
               "application/json",
               "application/vnd.ms-excel",
               "application/vnd.openxmlformats-officedocument.spreadsheetml.sheet" >>

\* MIME types the file picker lets the user select
DeclaredMimeTypes == { SPREADSHEET, "text/csv", "text/tab-separated-values",
                       "application/vnd.ms-excel" }

FileIds == { "file" \o ToString(i) : i \in 1..NumFileIds }

\* A file reference as the host stores it, with or without 'mimeType' (old
\* entries lack it), and with an id that may be empty.
FileRef(id) == [id |-> id, name |-> "Police Data",
                url |-> "http://example.org/" \o id]
FileRefs ==
    { FileRef(id) : id \in FileIds \cup {""} }
    \cup { [mimeType |-> m] @@ FileRef(id) :
             id \in FileIds, m \in DeclaredMimeTypes }
    \cup { [mimeType |-> SPREADSHEET] @@ FileRef("") }

\* params["file"]: Optional[Dict[str, str]]
FileParams == { None, EmptyDict } \cup FileRefs

\* Errors the host stores in place of a credential when the OAuth refresh failed
StoredErrors ==
    { [id |-> "py.fetcher.secrets._refresh_oauth2_token.error.general",
       arguments |-> [status_code |-> 400, error |-> "invalid_grant"],
       source |-> NoSource],
      [id |-> "py.fetcher.secrets.error.noToken"] }

\* As returned by the host's process_secret_oauth2()
UsableSecret == [token_type |-> "Bearer", access_token |-> "an-access-token"]

\* secrets["google_credentials"]
Credentials ==
    { EmptyDict, [name |-> "x", secret |-> UsableSecret] }
    \cup { [name |-> "x", error |-> e] : e \in StoredErrors }
    \cup { [name |-> "x", error |-> e, secret |-> UsableSecret] :
             e \in { d \in StoredErrors : "source" \in DOMAIN d } }

Secrets == { EmptyDict } \cup { [google_credentials |-> c] : c \in Credentials }

-----------------------------------------------------------------------------
(* fetch *)

_generate_google_sheet_url(sheet_id) ==
    GDRIVE_API_URL \o "/files/" \o sheet_id \o "/export?mimeType=text%2Fcsv"

_generate_gdrive_file_url(sheet_id) ==
    GDRIVE_API_URL \o "/files/" \o sheet_id \o "?alt=media"

\* The file at output_path afterwards, and the value returned
fetch_error_keeps_file(output_file, message) ==
    [ file |-> output_file,
      ret |-> Returned(FetchResult("output_path", << RenderError(message) >>)) ]

fetch_error(output_file, message) ==
    [ file |-> os_truncate(output_file, 0),
      ret |-> Returned(FetchResult("output_path", << RenderError(message) >>)) ]

\* oauth2.Client.add_token for a bearer token: the URL is kept, the token goes
\* into the Authorization header
add_token(oauth2_client, url) ==
    [ url |-> url,
      headers |-> [Authorization |-> "Bearer " \o oauth2_client.access_token] ]

\* do_download up to its await: the URL variant, the local sheet_mime_type
\* and the authorized request
do_download_request_always_export(sheet_id, sheet_mime_type, oauth2_client) ==
    [ sheet_mime_type |-> "text/csv",
      request |-> add_token(oauth2_client, _generate_google_sheet_url(sheet_id)) ]

do_download_request(sheet_id, sheet_mime_type, oauth2_client) ==
    IF sheet_mime_type = SPREADSHEET
    THEN [ sheet_mime_type |-> "text/csv",
           request |-> add_token(oauth2_client,
                                 _generate_google_sheet_url(sheet_id)) ]
    ELSE [ sheet_mime_type |-> sheet_mime_type,
           request |-> add_token(oauth2_client,
                                 _generate_gdrive_file_url(sheet_id)) ]

\* The outcome of fetch_arrow up to its return, its raise, or do_download's
\* await.  file: the file at output_path afterwards;  ret: how the call ended
\* (NotCalled while it awaits);  awaiting: do_download's locals (None if the
\* call ended before the GET)
Ended(outcome) == outcome @@ [awaiting |-> None]

\* fetch_arrow from `secret = secrets.get(...)` on
fetch_arrow_secret_wrong_message(s, sheet_id, sheet_mime_type, output_file) ==
    LET secret == IF "google_credentials" \in DOMAIN s
                  THEN s.google_credentials
                  ELSE None
    IN
    IF Falsy(secret)
    THEN Ended(fetch_error(output_file, trans("error.params.noFile")))
    ELSE IF "error" \in DOMAIN secret
    THEN Ended(fetch_error(output_file, I18nMessageFromDict(secret.error)))
    ELSE
    LET oauth2_client == [ token_type |-> secret.secret.token_type,
                           access_token |-> secret.secret.access_token ]
    IN  [ file |-> output_file, ret |-> NotCalled,
          awaiting |-> do_download_request(sheet_id, sheet_mime_type,
                                           oauth2_client) ]

fetch_arrow_secret_retranslates(s, sheet_id, sheet_mime_type, output_file) ==
    LET secret == IF "google_credentials" \in DOMAIN s
                  THEN s.google_credentials
                  ELSE None
    IN
    IF Falsy(secret)
    THEN Ended(fetch_error(output_file, trans("error.secrets.noCredentials")))
    ELSE IF "error" \in DOMAIN secret
    THEN Ended(fetch_error(output_file, trans(secret.error.id)))
    ELSE
    LET oauth2_client == [ token_type |-> secret.secret.token_type,
                           access_token |-> secret.secret.access_token ]
    IN  [ file |-> output_file, ret |-> NotCalled,
          awaiting |-> do_download_request(sheet_id, sheet_mime_type,
                                           oauth2_client) ]

fetch_arrow_secret_prefers_secret(s, sheet_id, sheet_mime_type, output_file) ==
    LET secret == IF "google_credentials" \in DOMAIN s
                  THEN s.google_credentials
                  ELSE None
    IN
    IF Falsy(secret)
    THEN Ended(fetch_error(output_file, trans("error.secrets.noCredentials")))
    ELSE IF "secret" \notin DOMAIN secret
    THEN Ended(fetch_error(output_file, I18nMessageFromDict(secret.error)))
    ELSE
    LET oauth2_client == [ token_type |-> secret.secret.token_type,
                           access_token |-> secret.secret.access_token ]
    IN  [ file |-> output_file, ret |-> NotCalled,
          awaiting |-> do_download_request(sheet_id, sheet_mime_type,
                                           oauth2_client) ]

fetch_arrow_secret(s, sheet_id, sheet_mime_type, output_file) ==
    LET secret == IF "google_credentials" \in DOMAIN s
                  THEN s.google_credentials
                  ELSE None
    IN
    IF Falsy(secret)
    THEN Ended(fetch_error(output_file, trans("error.secrets.noCredentials")))
    ELSE IF "error" \in DOMAIN secret
    THEN Ended(fetch_error(output_file, I18nMessageFromDict(secret.error)))
    ELSE
    LET oauth2_client == [ token_type |-> secret.secret.token_type,
                           access_token |-> secret.secret.access_token ]
    IN  [ file |-> output_file, ret |-> NotCalled,
          awaiting |-> do_download_request(sheet_id, sheet_mime_type,
                                           oauth2_client) ]

fetch_arrow_credentials_before_id(p, s, output_file) ==
    LET file_meta == p.file IN
    IF Falsy(file_meta)
    THEN Ended(fetch_error(output_file, trans("error.params.noFile")))
    ELSE
    LET sheet_id == file_meta.id
        sheet_mime_type == IF "mimeType" \in DOMAIN file_meta
                           THEN file_meta.mimeType
                           ELSE SPREADSHEET
        checked == fetch_arrow_secret(s, sheet_id, sheet_mime_type, output_file)
    IN  IF checked.awaiting = None
        THEN checked
        ELSE IF sheet_id = ""
        THEN Ended([ file |-> output_file,
                     ret |-> Raised("RuntimeError: Missing file.id") ])
        ELSE checked

fetch_arrow(p, s, output_file) ==
    LET file_meta == p.file IN
    IF Falsy(file_meta)
    THEN Ended(fetch_error(output_file, trans("error.params.noFile")))
    ELSE
    LET sheet_id == file_meta.id IN
    IF sheet_id = ""
    THEN Ended([ file |-> output_file,
                 ret |-> Raised("RuntimeError: Missing file.id") ])
    ELSE
    LET sheet_mime_type == IF "mimeType" \in DOMAIN file_meta
                           THEN file_meta.mimeType
                           ELSE SPREADSHEET
    IN  fetch_arrow_secret(s, sheet_id, sheet_mime_type, output_file)

-----------------------------------------------------------------------------
(* The HTTP collaborator: how httpfile.download may end *)

ResponseContentTypes == { "text/csv",
                          "text/tab-separated-values; charset=utf-8",
                          "application/vnd.ms-excel",
                          "text/html" }

FailureStatuses == { 401, 403, 404, 429, 500 }

Reason(status_code) ==
    CASE status_code = 401 -> "Unauthorized"
      [] status_code = 403 -> "Forbidden"
      [] status_code = 404 -> "Not Found"
      [] status_code = 429 -> "Too Many Requests"
      [] OTHER -> "Internal Server Error"

HttpErrorNotSuccess(status_code) ==
    [ exc |-> "HttpError.NotSuccess",
      status_code |-> status_code,
      i18n_message |-> I18nMessage("http.errors.HttpErrorNotSuccess",
                                   [ status_code |-> status_code,
                                     reason |-> Reason(status_code) ],
                                   "cjwmodule") ]

HttpErrorOther(name) ==
    [ exc |-> "HttpError." \o name,
      i18n_message |-> I18nMessage("http.errors.HttpError" \o name,
                                   EmptyDict, "cjwmodule") ]

HttpErrors ==
    { HttpErrorNotSuccess(c) : c \in FailureStatuses }
    \cup { HttpErrorOther(n) : n \in { "Timeout", "Generic" } }

\* The httpfile that httpfile.download writes on success: the request's
\* parameters, the status line, the response headers and the body
HttpFile(url, status_line, headers, body) ==
    [ head |-> "gzip", parameters |-> [url |-> url],
      status_line |-> status_line, headers |-> headers, body |-> body ]

Body == "A,B\nx,y\nz,a"

ResponseHeaders(content_type) ==
    << << "Content-Type", content_type >>,
       << "Content-Length", ToString(Len(Body)) >> >>

\* do_download's except clauses: the message for a failed httpfile.download
do_download_error_message_no_404(err) ==
    IF err.exc = "HttpError.NotSuccess"
    THEN CASE err.status_code = 401 -> trans("error.http.status401")
           [] err.status_code = 403 -> trans("error.http.status403")
           [] OTHER -> err.i18n_message
    ELSE err.i18n_message

do_download_error_message(err) ==
    IF err.exc = "HttpError.NotSuccess"
    THEN CASE err.status_code = 401 -> trans("error.http.status401")
           [] err.status_code = 403 -> trans("error.http.status403")
           [] err.status_code = 404 -> trans("error.http.status404")
           [] OTHER -> err.i18n_message
    ELSE err.i18n_message

-----------------------------------------------------------------------------
(* render *)

\* Tables and the Arrow file that holds one
LegacyTable == [A |-> << 1, 2 >>, B |-> << 3, 4 >>]
ParquetFile(table) == [head |-> "PAR1", table |-> table]
ArrowFile(table) == [head |-> "ARROW1", table |-> table]

\* cjwparquet.file_has_parquet_magic_number
file_has_parquet_magic_number(file) == startswith(file.head, "PAR1")

\* cjwparse.api.parse_file: the table it writes records what it was asked
parse_file(body, encoding, mime_type, has_header) ==
    [ body |-> body, encoding |-> encoding, mime_type |-> mime_type,
      has_header |-> has_header ]

\* [e.message for e in errors]
Messages(errors) == [ i \in 1..Len(errors) |-> errors[i].message ]

_render_deprecated_parquet(input_file, errors, output_file, p) ==
    [ file |-> ArrowFile(input_file.table),
      ret |-> Returned(IF p.has_header
                       THEN errors
                       ELSE errors
                            \o << trans("error.parquet.cannotRemoveHeader") >>) ]

\* httpfile.extract_first_header: the first header of that name, or None
RECURSIVE extract_first_header(_, _)
extract_first_header(headers, name) ==
    IF headers = << >> THEN "None"
    ELSE IF Head(headers)[1] = name THEN Head(headers)[2]
    ELSE extract_first_header(Tail(headers), name)

\* _calculate_mime_type: the first MimeType that content_type starts with,
\* "RuntimeError" when there is none
RECURSIVE _calculate_mime_type_from(_, _)
_calculate_mime_type_from(content_type, i) ==
    IF i > Len(MimeType) THEN "RuntimeError"
    ELSE IF startswith(content_type, MimeType[i]) THEN MimeType[i]
    ELSE _calculate_mime_type_from(content_type, i + 1)

_calculate_mime_type_exact(content_type) ==
    IF \E i \in 1..Len(MimeType) : MimeType[i] = content_type
    THEN content_type
    ELSE "RuntimeError"

_calculate_mime_type(content_type) == _calculate_mime_type_from(content_type, 1)

_render_file(path, p, output_file) ==
    IF "headers" \notin DOMAIN path
    THEN [ file |-> output_file, ret |-> Raised("httpfile.read failed") ]
    ELSE
    LET content_type == extract_first_header(path.headers, "Content-Type")
        mime_type == _calculate_mime_type(content_type)
    IN  IF mime_type = "RuntimeError"
        THEN [ file |-> output_file,
               ret |-> Raised("RuntimeError: Unsupported content_type "
                              \o content_type) ]
        ELSE [ file |-> ArrowFile(parse_file(path.body, "None", mime_type,
                                             p.has_header)),
               ret |-> Returned(<< >>) ]

\* render: the file at output_path afterwards, and how the call ended.
\* `result` is the persisted FetchResult, its `path` the contents of the file.
\* render's second argument to _render_deprecated_parquet: the list object
\* and its items.  The list comprehension builds a new list on every call.
render_errors_argument_is_result_errors(result) ==
    [ object |-> "fetch_result.errors", items |-> result.errors ]

render_errors_argument(result) ==
    [ object |-> "new list", items |-> Messages(result.errors) ]

render_errors_before_parquet(p, output_file, result) ==
    IF result = None
    THEN [ file |-> output_file, ret |-> Returned(<< >>) ]
    ELSE IF result.errors # << >>
    THEN [ file |-> output_file, ret |-> Returned(Messages(result.errors)) ]
    ELSE IF file_has_parquet_magic_number(result.path)
    THEN _render_deprecated_parquet(result.path, Messages(result.errors),
                                    output_file, p)
    ELSE _render_file(result.path, p, output_file)

render_drops_last_error(p, output_file, result) ==
    IF result = None
    THEN [ file |-> output_file, ret |-> Returned(<< >>) ]
    ELSE IF file_has_parquet_magic_number(result.path)
    THEN _render_deprecated_parquet(result.path, Messages(result.errors),
                                    output_file, p)
    ELSE IF result.errors # << >>
    THEN [ file |-> output_file,
           ret |-> Returned(SubSeq(Messages(result.errors), 1,
                                   Len(result.errors) - 1)) ]
    ELSE _render_file(result.path, p, output_file)

render_none_reports_error(p, output_file, result) ==
    IF result = None
    THEN [ file |-> output_file,
           ret |-> Returned(<< trans("error.params.noFile") >>) ]
    ELSE IF file_has_parquet_magic_number(result.path)
    THEN _render_deprecated_parquet(result.path, Messages(result.errors),
                                    output_file, p)
    ELSE IF result.errors # << >>
    THEN [ file |-> output_file, ret |-> Returned(Messages(result.errors)) ]
    ELSE _render_file(result.path, p, output_file)

render(p, output_file, result) ==
    IF result = None
    THEN [ file |-> output_file, ret |-> Returned(<< >>) ]
    ELSE IF file_has_parquet_magic_number(result.path)
    THEN _render_deprecated_parquet(result.path,
                                    render_errors_argument(result).items,
                                    output_file, p)
    ELSE IF result.errors # << >>
    THEN [ file |-> output_file, ret |-> Returned(Messages(result.errors)) ]
    ELSE _render_file(result.path, p, output_file)

\* The items of the list object fetch_result.errors once render has returned:
\* `errors += [...]` in _render_deprecated_parquet extends, in place, the
\* list object it was handed, which is also the list it returns.
errors_after_render(p, output_file, result) ==
    IF /\ result # None
       /\ file_has_parquet_magic_number(result.path)
       /\ render_errors_argument(result).object = "fetch_result.errors"
    THEN render(p, output_file, result).ret.value
    ELSE result.errors

-----------------------------------------------------------------------------
(* migrate_params *)

\* The character of s at position i ("" past the end)
CharAt(s, i) == IF i >= 1 /\ i <= Len(s) THEN SubSeq(s, i, i) ELSE ""

\* The position of the next double quote of s at or after i
RECURSIVE NextQuote(_, _)
NextQuote(s, i) ==
    IF i > Len(s) \/ CharAt(s, i) = "\"" THEN i ELSE NextQuote(s, i + 1)

\* A JSON string literal starting at the quote at position i: its text and the
\* position after its closing quote
ReadString(s, i) ==
    LET close == NextQuote(s, i + 1)
    IN  [ text |-> SubSeq(s, i + 1, close - 1), next |-> close + 1 ]

\* The members of a JSON object, from the key whose quote is at position i
RECURSIVE ReadMembers(_, _, _)
ReadMembers(s, i, object) ==
    LET key == ReadString(s, i)
        value == ReadString(s, key.next + 1)     \* skips the colon
        found == (key.text :> value.text) @@ object
    IN  IF CharAt(s, value.next) = ","
        THEN ReadMembers(s, value.next + 1, found)
        ELSE found

\* json.loads, for what the file picker stored: null, or an object of strings
json_loads(s) ==
    IF s = "null" THEN None
    ELSE IF CharAt(s, 2) = "}" THEN EmptyDict
    ELSE ReadMembers(s, 2, EmptyDict)

\* json.dumps as the file picker wrote it (the client's JSON.stringify)
json_dumps(file) ==
    "{\"id\":\"" \o file.id \o "\",\"name\":\"" \o file.name
    \o "\",\"url\":\"" \o file.url \o "\""
    \o (IF "mimeType" \in DOMAIN file
        THEN ",\"mimeType\":\"" \o file.mimeType \o "\""
        ELSE "")
    \o "}"

_migrate_params_v0_to_v1_empty_file(p) ==
    [ has_header |-> p.has_header,
      version_select |-> p.version_select,
      file |-> IF p.googlefileselect # ""
               THEN json_loads(p.googlefileselect)
               ELSE EmptyDict ]

_migrate_params_v0_to_v1(p) ==
    [ has_header |-> p.has_header,
      version_select |-> p.version_select,
      file |-> IF p.googlefileselect # ""
               THEN json_loads(p.googlefileselect)
               ELSE None ]

migrate_params(p) ==
    IF "googlefileselect" \in DOMAIN p
    THEN _migrate_params_v0_to_v1(p)
    ELSE p

VersionSelects == { "", "2020-01-01T00:00:00Z" }

\* Every shape of params the host has persisted
ParamsV0 == [ has_header : BOOLEAN, version_select : VersionSelects,
              googlefileselect : { "" } \cup { json_dumps(f) : f \in FileRefs } ]
ParamsV1 == [ has_header : BOOLEAN, version_select : VersionSelects,
              file : { None } \cup FileRefs ]

-----------------------------------------------------------------------------
(* The state machine: the host calls fetch_arrow and render, persists what   *)
(* fetch returns, and the HTTP collaborator ends the download.  What belongs *)
(* to one call (its arguments, its output file, its return value) is gone    *)
(* when the host makes its next call.                                        *)

DefaultParams == [file |-> None, has_header |-> TRUE]

\* Fetch results persisted by older versions of the module: a Parquet file
\* with the parse errors of that time, or an empty file with errors
LegacyMessages == { I18nMessage("truncated table", EmptyDict, "module"),
                    I18nMessage("x", [y |-> "z"], "module") }

RECURSIVE ErrorLists(_)
ErrorLists(n) ==
    IF n = 0 THEN { << >> }
    ELSE ErrorLists(n - 1)
         \cup { Append(l, RenderError(m)) :
                  l \in { k \in ErrorLists(n - 1) : Len(k) = n - 1 },
                  m \in LegacyMessages }

StoredFetchResults ==
    { FetchResult(ParquetFile(LegacyTable), l) : l \in ErrorLists(MaxStoredErrors) }
    \cup { FetchResult(EmptyFile, l) : l \in ErrorLists(MaxStoredErrors) \ { << >> } }

FilesBefore == { EmptyFile, StaleFile }

\* No render call yet on the persisted fetch result
NoRender == [has_header |-> TRUE, ret |-> NotCalled]

FetchIdle ==
    /\ pc = "idle"
    /\ params = DefaultParams
    /\ secrets = EmptyDict
    /\ output_path = EmptyFile
    /\ fetch_before = EmptyFile
    /\ awaiting = None
    /\ requests = << >>
    /\ download_end = None
    /\ fetch_ret = NotCalled

RenderIdle ==
    /\ render_params = DefaultParams
    /\ render_before = EmptyFile
    /\ render_output = EmptyFile
    /\ render_ret = NotCalled
    /\ render_given = None
    /\ render_prev = NoRender

MainInit ==
    /\ FetchIdle
    /\ RenderIdle
    /\ fetch_result = None
    /\ fetched_file = None
    /\ default_errors = << >>
    /\ shares_default = FALSE

Init ==
    /\ MainInit
    /\ m_params = [has_header |-> TRUE, version_select |-> "", file |-> None]
    /\ m_ret = None
    /\ m_prev = None

\* The host calls fetch_arrow(params, s, ..., output_path) with `file` selected,
\* on an output file holding `before`.  The call runs to its return or raise,
\* or to do_download's await; the host persists a returned FetchResult with
\* the file's contents.
FetchArrow(file, s, before) ==
    /\ pc = "idle"
    /\ LET p == [DefaultParams EXCEPT !.file = file]
           r == fetch_arrow(p, s, before)
       IN
        /\ params' = p
        /\ secrets' = s
        /\ fetch_before' = before
        /\ output_path' = r.file
        /\ fetch_ret' = r.ret
        /\ awaiting' = r.awaiting
        /\ download_end' = None
        /\ IF r.awaiting = None
           THEN pc' = "idle" /\ requests' = << >>
           ELSE pc' = "downloading" /\ requests' = << r.awaiting.request >>
        /\ IF r.ret.kind = "return"
           THEN /\ fetch_result' = FetchResult(r.file, r.ret.value.errors)
                /\ fetched_file' = p.file
                /\ shares_default' = FALSE
           ELSE UNCHANGED << fetch_result, fetched_file, shares_default >>
    /\ render_params' = DefaultParams
    /\ render_before' = EmptyFile
    /\ render_output' = EmptyFile
    /\ render_ret' = NotCalled
    /\ render_given' = None
    /\ render_prev' = NoRender
    /\ UNCHANGED << default_errors, migrate_vars >>

\* httpfile.download streams what it has received so far into output_path
DownloadWrites ==
    /\ pc = "downloading"
    /\ output_path # PartialFile
    /\ output_path' = PartialFile
    /\ UNCHANGED << pc, params, secrets, fetch_before, awaiting, requests,
                    download_end, fetch_ret, result_vars, render_vars,
                    migrate_vars >>

\* do_download after its await (the try block's end and `return FetchResult`)
do_download_returns(request, content_type) ==
    [ file |-> HttpFile(request.url, "200 OK", ResponseHeaders(content_type),
                        Body),
      ret |-> Returned(FetchResult("output_path", default_errors)) ]

\* do_download after its await (the except clauses)
do_download_except(err, output_file) ==
    fetch_error(output_file, do_download_error_message(err))

FetchEnds(outcome, left, r) ==
    /\ pc' = "idle"
    /\ download_end' = [outcome |-> outcome, left |-> left]
    /\ output_path' = r.file
    /\ fetch_ret' = r.ret
    /\ awaiting' = None
    /\ fetch_result' = FetchResult(r.file, r.ret.value.errors)
    /\ fetched_file' = params.file
    /\ shares_default' = (outcome.exc = "none")
    /\ render_params' = DefaultParams
    /\ render_before' = EmptyFile
    /\ render_output' = EmptyFile
    /\ render_ret' = NotCalled
    /\ render_given' = None
    /\ render_prev' = NoRender
    /\ UNCHANGED << params, secrets, fetch_before, requests, default_errors,
                    migrate_vars >>

\* The GET succeeds: httpfile.download has written the httpfile
DownloadSucceeds(content_type) ==
    /\ pc = "downloading"
    /\ LET r == do_download_returns(awaiting.request, content_type)
       IN  FetchEnds([exc |-> "none", content_type |-> content_type], r.file, r)

\* The GET fails: httpfile.download raises, do_download handles it
DownloadFails(err) ==
    /\ pc = "downloading"
    /\ FetchEnds(err, output_path, do_download_except(err, output_path))

\* The host opens a step whose fetch result was persisted long ago; a result
\* without errors is built as FetchResult(path), with the default list
HostLoadsStoredResult(stored) ==
    /\ pc = "idle"
    /\ shares_default' = (stored.errors = << >>)
    /\ fetch_result' = IF stored.errors = << >>
                       THEN FetchResult(stored.path, default_errors)
                       ELSE stored
    /\ fetched_file' = None
    /\ pc' = "idle"
    /\ params' = DefaultParams
    /\ secrets' = EmptyDict
    /\ output_path' = EmptyFile
    /\ fetch_before' = EmptyFile
    /\ awaiting' = None
    /\ requests' = << >>
    /\ download_end' = None
    /\ fetch_ret' = NotCalled
    /\ render_params' = DefaultParams
    /\ render_before' = EmptyFile
    /\ render_output' = EmptyFile
    /\ render_ret' = NotCalled
    /\ render_given' = None
    /\ render_prev' = NoRender
    /\ UNCHANGED << default_errors, migrate_vars >>

\* The host calls render(table, params, output_path, fetch_result=...) with the
\* header checkbox in state has_header, on an output file holding `before`.
\* The call may come while a fetch awaits its GET; the fetch's variables then
\* stay as they are.
Render(has_header, before) ==
    /\ LET p == [file |-> fetched_file, has_header |-> has_header]
           r == render(p, before, fetch_result)
       IN  /\ render_params' = p
           /\ render_before' = before
           /\ render_output' = r.file
           /\ render_ret' = r.ret
           /\ render_given' = fetch_result
           /\ render_prev' = [has_header |-> render_params.has_header,
                              ret |-> render_ret]
           /\ IF fetch_result = None
              THEN UNCHANGED << fetch_result, default_errors >>
              ELSE LET after == errors_after_render(p, before, fetch_result)
                   IN  /\ fetch_result' = [fetch_result EXCEPT !.errors = after]
                       /\ default_errors' = IF shares_default THEN after
                                            ELSE default_errors
    /\ IF pc = "idle"
       THEN /\ pc' = "idle"
            /\ params' = DefaultParams
            /\ secrets' = EmptyDict
            /\ output_path' = EmptyFile
            /\ fetch_before' = EmptyFile
            /\ awaiting' = None
            /\ requests' = << >>
            /\ download_end' = None
            /\ fetch_ret' = NotCalled
       ELSE UNCHANGED fetch_vars
    /\ UNCHANGED << fetched_file, shares_default, migrate_vars >>

Next ==
    \/ \E file \in FileParams, s \in Secrets, before \in FilesBefore :
         FetchArrow(file, s, before)
    \/ DownloadWrites
    \/ \E content_type \in ResponseContentTypes : DownloadSucceeds(content_type)
    \/ \E err \in HttpErrors : DownloadFails(err)
    \/ \E stored \in StoredFetchResults : HostLoadsStoredResult(stored)
    \/ \E has_header \in BOOLEAN, before \in FilesBefore :
         Render(has_header, before)

Spec == Init /\ [][Next]_vars

-----------------------------------------------------------------------------
(* The specification of migrate_params: the host loads persisted params of  *)
(* any historical shape, migrates them, persists the result and, on the     *)
(* next load, migrates what it persisted.                                   *)

InitMigrate ==
    /\ MainInit
    /\ m_params \in ParamsV0 \cup ParamsV1
    /\ m_ret = None
    /\ m_prev = None

\* The host loads the params it persisted last and calls migrate_params
MigrateParams ==
    /\ m_ret = None
    /\ m_ret' = migrate_params(IF m_prev = None THEN m_params ELSE m_prev)
    /\ UNCHANGED << m_params, m_prev, fetch_vars, result_vars, render_vars >>

\* The host persists the migrated params
HostPersistsMigrated ==
    /\ m_ret # None
    /\ m_prev = None
    /\ m_prev' = m_ret
    /\ m_ret' = None
    /\ UNCHANGED << m_params, fetch_vars, result_vars, render_vars >>

NextMigrate == MigrateParams \/ HostPersistsMigrated

SpecMigrate == InitMigrate /\ [][NextMigrate]_vars

-----------------------------------------------------------------------------
(* Properties of fetch *)

\* The call of fetch_arrow has ended (returned or raised)
FetchEnded == fetch_ret # NotCalled

\* A file is selected and has a non-empty id
FileSelected == ~Falsy(params.file) /\ params.file.id # ""

\* fetch returned the output path with exactly this one error
ReturnedOneError(message) ==
    fetch_ret = [ kind |-> "return",
                  value |-> [ path |-> "output_path",
                              errors |-> << [ message |-> message,
                                              quick_fixes |-> << >> ] >> ] ]

ModuleMessage(id) == [id |-> id, arguments |-> EmptyDict, source |-> "module"]

\* C1: when params.file is None, whatever the secrets and whatever the output
\* file held before, fetch returns the output path with exactly one error,
\* error.params.noFile, and the output file has zero length afterwards.
C1_NoFile ==
    (FetchEnded /\ params.file = None) =>
        /\ ReturnedOneError(ModuleMessage("error.params.noFile"))
        /\ Len(output_path.head) = 0

C1_Witness ==
    /\ FetchEnded
    /\ params.file = None
    /\ fetch_before = StaleFile
    /\ "google_credentials" \in DOMAIN secrets
    /\ "error" \in DOMAIN secrets.google_credentials

\* C2: with a file selected (non-empty id) and no google_credentials secret,
\* fetch returns exactly one error, error.secrets.noCredentials, and the output
\* file has zero length afterwards.
C2_NoCredentials ==
    (FetchEnded /\ FileSelected /\ "google_credentials" \notin DOMAIN secrets) =>
        /\ ReturnedOneError(ModuleMessage("error.secrets.noCredentials"))
        /\ Len(output_path.head) = 0

C2_Witness ==
    /\ FetchEnded
    /\ FileSelected
    /\ "google_credentials" \notin DOMAIN secrets
    /\ fetch_before = StaleFile

\* C3: with a file selected and a stored credential that carries an `error`,
\* fetch returns exactly one error whose message has the id, the arguments and
\* the source of the stored error, and the output file has zero length
\* afterwards.
C3_StoredError ==
    (/\ FetchEnded
     /\ FileSelected
     /\ "google_credentials" \in DOMAIN secrets
     /\ "error" \in DOMAIN secrets.google_credentials) =>
        LET stored == secrets.google_credentials.error IN
        /\ fetch_ret.kind = "return"
        /\ fetch_ret.value.path = "output_path"
        /\ Len(fetch_ret.value.errors) = 1
        /\ fetch_ret.value.errors[1].quick_fixes = << >>
        /\ LET message == fetch_ret.value.errors[1].message IN
            /\ DOMAIN message = { "id", "arguments", "source" }
            /\ message.id = stored.id
            /\ message.arguments = IF "arguments" \in DOMAIN stored
                                   THEN stored.arguments ELSE EmptyDict
            /\ message.source = IF "source" \in DOMAIN stored
                                THEN stored.source ELSE NoSource
        /\ Len(output_path.head) = 0

C3_Witness ==
    /\ FetchEnded
    /\ FileSelected
    /\ "google_credentials" \in DOMAIN secrets
    /\ "error" \in DOMAIN secrets.google_credentials
    /\ "arguments" \in DOMAIN secrets.google_credentials.error
    /\ "secret" \in DOMAIN secrets.google_credentials
    /\ fetch_before = StaleFile

\* C4: a fetch that reaches the download requests
\* {API}/files/{id}/export?mimeType=text%2Fcsv exactly when the file's effective
\* MIME type is the spreadsheet sentinel and {API}/files/{id}?alt=media for
\* every other type; a file reference without 'mimeType' has the sentinel as
\* its effective type.
C4_Url ==
    requests # << >> =>
        LET file == params.file
            effective == IF "mimeType" \in DOMAIN file
                         THEN file.mimeType
                         ELSE "application/vnd.google-apps.spreadsheet"
            api == "https://www.googleapis.com/drive/v3"
        IN  /\ Len(requests) = 1
            /\ effective = "application/vnd.google-apps.spreadsheet" =>
                 requests[1].url
                   = api \o "/files/" \o file.id \o "/export?mimeType=text%2Fcsv"
            /\ effective # "application/vnd.google-apps.spreadsheet" =>
                 requests[1].url = api \o "/files/" \o file.id \o "?alt=media"

C4_Witness ==
    /\ requests # << >>
    /\ "mimeType" \notin DOMAIN params.file
    /\ requests[1].url
         = "https://www.googleapis.com/drive/v3/files/file1/export?mimeType=text%2Fcsv"

\* C5: when the GET fails, status 401, 403 and 404 yield error.http.status401,
\* status403 and status404, every other status and every network failure yields
\* the transport's own message unchanged; the result has exactly one error and
\* the output file has zero length, also when the download had written bytes.
C5_HttpFailure ==
    (download_end # None /\ download_end.outcome.exc # "none") =>
        LET err == download_end.outcome
            status == IF "status_code" \in DOMAIN err THEN err.status_code ELSE 0
        IN  /\ ReturnedOneError(
                 CASE status = 401 -> ModuleMessage("error.http.status401")
                   [] status = 403 -> ModuleMessage("error.http.status403")
                   [] status = 404 -> ModuleMessage("error.http.status404")
                   [] OTHER -> err.i18n_message)
            /\ Len(output_path.head) = 0

C5_Witness ==
    /\ download_end # None
    /\ download_end.outcome.exc = "HttpError.NotSuccess"
    /\ download_end.outcome.status_code = 404
    /\ download_end.left = PartialFile

-----------------------------------------------------------------------------
(* Properties of render *)

\* The call of render has ended (returned or raised)
RenderEnded == render_ret # NotCalled

\* The stored errors' messages, in the stored order
StoredMessages ==
    [ i \in 1..Len(fetch_result.errors) |-> fetch_result.errors[i].message ]

\* C6 as stated: with no fetch result, render returns an empty list and the
\* output file is empty after the call, whatever it held before, independent of
\* params.
C6_NoFetchResult_OutputEmptied ==
    (RenderEnded /\ fetch_result = None) =>
        /\ render_ret = [kind |-> "return", value |-> << >>]
        /\ Len(render_output.head) = 0

\* C6, amended: with no fetch result, render returns an empty list and does not
\* touch the output file, independent of params; the output is the empty table
\* (a zero-length file) when the host supplied an empty file.
C6_NoFetchResult ==
    (RenderEnded /\ fetch_result = None) =>
        /\ render_ret = [kind |-> "return", value |-> << >>]
        /\ render_output = render_before
        /\ Len(render_before.head) = 0 => Len(render_output.head) = 0

C6_Witness ==
    /\ RenderEnded
    /\ fetch_result = None
    /\ render_before = StaleFile
    /\ ~render_params.has_header

\* C7 as stated: with stored errors and no legacy magic number, render returns
\* exactly the stored errors' messages, in the stored order, for either value
\* of has_header, and produces an empty table at the output path.
C7_StoredErrors_OutputEmptied ==
    (/\ RenderEnded
     /\ fetch_result # None
     /\ fetch_result.errors # << >>
     /\ fetch_result.path.head # "PAR1") =>
        /\ render_ret = [kind |-> "return", value |-> StoredMessages]
        /\ Len(render_output.head) = 0

\* C7, amended: with stored errors and no legacy magic number, render returns
\* exactly the stored errors' messages, in the stored order, for either value
\* of has_header, and does not touch the output file; the output is the empty
\* table when the host supplied an empty file.
C7_StoredErrors ==
    (/\ RenderEnded
     /\ fetch_result # None
     /\ fetch_result.errors # << >>
     /\ fetch_result.path.head # "PAR1") =>
        /\ render_ret = [kind |-> "return", value |-> StoredMessages]
        /\ render_output = render_before
        /\ Len(render_before.head) = 0 => Len(render_output.head) = 0

C7_Witness ==
    /\ RenderEnded
    /\ fetch_result # None
    /\ Len(fetch_result.errors) = 2
    /\ fetch_result.errors[1] # fetch_result.errors[2]
    /\ fetch_result.path.head # "PAR1"
    /\ ~render_params.has_header
    /\ render_before = StaleFile

\* C8: when the stored file has the legacy magic number, the legacy branch is
\* taken even if the fetch result has errors: the output is the converted
\* legacy table, the same for has_header true and false, and render returns the
\* stored errors' messages in the stored order, followed by exactly one
\* error.parquet.cannotRemoveHeader when has_header is false and by nothing
\* when it is true.
C8_Legacy ==
    (RenderEnded /\ fetch_result # None /\ fetch_result.path.head = "PAR1") =>
        /\ render_output = [head |-> "ARROW1", table |-> fetch_result.path.table]
        /\ render_ret
             = [ kind |-> "return",
                 value |-> IF render_params.has_header
                           THEN StoredMessages
                           ELSE Append(StoredMessages,
                                       ModuleMessage("error.parquet.cannotRemoveHeader")) ]

C8_Witness ==
    /\ RenderEnded
    /\ fetch_result # None
    /\ fetch_result.path.head = "PAR1"
    /\ Len(fetch_result.errors) = 2
    /\ ~render_params.has_header
    /\ render_before = StaleFile

\* C10: a file fetched by raw download (declared MIME type other than the
\* spreadsheet sentinel) is parsed at render time with the MIME type declared
\* in the file reference, not with the response's Content-Type.
C10_DeclaredTypeParsed ==
    (/\ RenderEnded
     /\ render_ret.kind = "return"
     /\ ~Falsy(fetched_file)
     /\ "mimeType" \in DOMAIN fetched_file
     /\ fetched_file.mimeType # "application/vnd.google-apps.spreadsheet"
     /\ fetch_result.errors = << >>) =>
        render_output.table.mime_type = fetched_file.mimeType

-----------------------------------------------------------------------------
(* Properties of migrate_params *)

\* The params handed to the migration that has returned
Migrated == IF m_prev = None THEN m_params ELSE m_prev

\* C9: for params with the legacy key googlefileselect, migrate_params returns
\* exactly {has_header, version_select, file}: the first two copied, file the
\* decoded file reference, or None when the legacy string is empty; params
\* without the legacy key are returned unchanged; migrating what a migration
\* returned returns it unchanged.
C9_Migrate ==
    m_ret # None =>
        /\ "googlefileselect" \in DOMAIN Migrated =>
             /\ DOMAIN m_ret = { "has_header", "version_select", "file" }
             /\ m_ret.has_header = Migrated.has_header
             /\ m_ret.version_select = Migrated.version_select
             /\ Migrated.googlefileselect = "" => m_ret.file = None
             /\ Migrated.googlefileselect # "" =>
                  \E file \in FileRefs :
                      /\ json_dumps(file) = Migrated.googlefileselect
                      /\ m_ret.file = file
        /\ "googlefileselect" \notin DOMAIN Migrated => m_ret = Migrated
        /\ m_prev # None => m_ret = m_prev

C9_Witness ==
    /\ m_ret # None
    /\ m_prev # None
    /\ "googlefileselect" \in DOMAIN m_params
    /\ m_params.googlefileselect # ""
    /\ "mimeType" \in DOMAIN m_ret.file

-----------------------------------------------------------------------------
(* Properties of render's fresh-bytes branch *)

\* The value of the persisted httpfile's Content-Type header
StoredContentType ==
    LET headers == fetch_result.path.headers
        at == { i \in 1..Len(headers) : headers[i][1] = "Content-Type" }
    IN  headers[CHOOSE i \in at : \A j \in at : i <= j][2]

\* The positions of the supported MIME types that are a prefix of it
PrefixesOfStored ==
    { i \in 1..Len(MimeType) :
        /\ Len(MimeType[i]) <= Len(StoredContentType)
        /\ SubSeq(StoredContentType, 1, Len(MimeType[i])) = MimeType[i] }

\* C11: with a fetch result that has no legacy magic number and no errors,
\* render maps the persisted Content-Type to the first supported MIME type that
\* is a prefix of it (a trailing "; charset=..." is ignored, no charset reaches
\* the parser) and parses the body with that type and with params' has_header;
\* a Content-Type without a supported prefix ends the call with a raise, not
\* with a returned error list.
C11_FreshBytes ==
    (/\ RenderEnded
     /\ fetch_result # None
     /\ fetch_result.path.head # "PAR1"
     /\ fetch_result.errors = << >>) =>
        IF PrefixesOfStored = { }
        THEN render_ret.kind = "raise"
        ELSE LET first == CHOOSE i \in PrefixesOfStored :
                              \A j \in PrefixesOfStored : i <= j
             IN  /\ render_ret = [kind |-> "return", value |-> << >>]
                 /\ render_output
                      = [ head |-> "ARROW1",
                          table |-> [ body |-> fetch_result.path.body,
                                      encoding |-> "None",
                                      mime_type |-> MimeType[first],
                                      has_header |-> render_params.has_header ] ]

C11_Witness ==
    /\ RenderEnded
    /\ fetch_result # None
    /\ fetch_result.path.head # "PAR1"
    /\ fetch_result.errors = << >>
    /\ StoredContentType = "text/tab-separated-values; charset=utf-8"
    /\ ~render_params.has_header
    /\ render_ret.kind = "return"

-----------------------------------------------------------------------------
(* The order of fetch's checks *)

\* The fetch_arrow call has begun: it has ended, or it awaits the download
FetchBegun == FetchEnded \/ pc = "downloading"

\* C12: fetch evaluates its checks in a fixed order and the first failure
\* decides: no file (noFile), then an empty file id (a raise, no FetchResult),
\* then no credential (noCredentials), then a stored credential error (passed
\* through), and only then the download and its failures.  So an empty id
\* raises also when the credential is absent or carries an error, and a
\* credential with both `error` and `secret` yields the stored error.
C12_CheckOrder ==
    FetchBegun =>
        IF params.file = None \/ DOMAIN params.file = { }
        THEN /\ ReturnedOneError(ModuleMessage("error.params.noFile"))
             /\ download_end = None
        ELSE IF params.file.id = ""
        THEN /\ fetch_ret.kind = "raise"
             /\ download_end = None
             /\ output_path = fetch_before
        ELSE IF \/ "google_credentials" \notin DOMAIN secrets
                \/ DOMAIN secrets.google_credentials = { }
        THEN /\ ReturnedOneError(ModuleMessage("error.secrets.noCredentials"))
             /\ download_end = None
        ELSE IF "error" \in DOMAIN secrets.google_credentials
        THEN /\ fetch_ret.kind = "return"
             /\ Len(fetch_ret.value.errors) = 1
             /\ fetch_ret.value.errors[1].message.id
                  = secrets.google_credentials.error.id
             /\ download_end = None
        ELSE \/ pc = "downloading" /\ fetch_ret = NotCalled
             \/ pc = "idle" /\ download_end # None /\ fetch_ret.kind = "return"

C12_Witness ==
    /\ FetchEnded
    /\ params.file # None
    /\ DOMAIN params.file # { }
    /\ params.file.id = ""
    /\ "google_credentials" \in DOMAIN secrets
    /\ "error" \in DOMAIN secrets.google_credentials
    /\ "secret" \in DOMAIN secrets.google_credentials
    /\ fetch_ret.kind = "raise"

-----------------------------------------------------------------------------
(* The GETs of one fetch invocation *)

\* The invocation's arguments stop it before the download: no file, an empty
\* id, no credential, or a credential with a stored error
StopsBeforeDownload ==
    \/ params.file = None
    \/ DOMAIN params.file = { }
    \/ params.file.id = ""
    \/ "google_credentials" \notin DOMAIN secrets
    \/ DOMAIN secrets.google_credentials = { }
    \/ "error" \in DOMAIN secrets.google_credentials

\* C13: a fetch invocation issues at most one GET: none when it ends in noFile,
\* the missing-id raise, noCredentials or a stored credential error, exactly
\* one otherwise; after a failed GET the invocation has ended with the error
\* and has issued no second request.
C13_OneGet ==
    /\ Len(requests) <= 1
    /\ FetchBegun =>
         /\ StopsBeforeDownload => requests = << >> /\ pc = "idle"
         /\ ~StopsBeforeDownload => Len(requests) = 1
    /\ (download_end # None /\ download_end.outcome.exc # "none") =>
         /\ pc = "idle"
         /\ fetch_ret.kind = "return"
         /\ Len(fetch_ret.value.errors) = 1
         /\ Len(requests) = 1

C13_Witness ==
    /\ download_end # None
    /\ download_end.outcome.exc = "HttpError.Timeout"
    /\ Len(requests) = 1
    /\ pc = "idle"

-----------------------------------------------------------------------------
(* State shared between invocations *)

CannotRemoveHeader == trans("error.parquet.cannotRemoveHeader")

Warnings(messages) ==
    { i \in 1..Len(messages) : messages[i] = CannotRemoveHeader }

\* render has returned for a legacy (Parquet) fetch result, header box unticked
LegacyRenderedWithoutHeader ==
    /\ RenderEnded
    /\ render_given # None
    /\ file_has_parquet_magic_number(render_given.path)
    /\ ~render_params.has_header

\* C14: no operation mutates state shared between invocations.  The default
\* list of FetchResult.errors stays empty; render leaves the fetch result it
\* was given as it was; a successful fetch returns an empty error list; and
\* rendering a legacy result with has_header false returns the stored messages
\* followed by exactly one cannotRemoveHeader warning, the same list as the
\* render before it on the same result.
C14_NoSharedMutation ==
    /\ default_errors = << >>
    /\ RenderEnded => fetch_result = render_given
    /\ (download_end # None /\ download_end.outcome.exc = "none") =>
         /\ fetch_ret.kind = "return"
         /\ fetch_ret.value.errors = << >>
         /\ fetch_result.errors = << >>
    /\ LegacyRenderedWithoutHeader =>
         /\ render_ret.kind = "return"
         /\ render_ret.value
              = Messages(render_given.errors) \o << CannotRemoveHeader >>
         /\ Cardinality(Warnings(render_ret.value)) = 1
         /\ (render_prev.ret # NotCalled /\ ~render_prev.has_header) =>
              render_ret = render_prev.ret

\* A legacy result built with the default error list is rendered a second
\* time with has_header false
C14_Witness ==
    /\ LegacyRenderedWithoutHeader
    /\ shares_default
    /\ render_prev.ret # NotCalled
    /\ ~render_prev.has_header
    /\ render_ret.value = << CannotRemoveHeader >>

====
